---- MODULE Spec2Model ----
(***************************************************************************)
(* Model of the antibot backend (src/app.py): the SQLite tables the        *)
(* handlers read and write, and one action per HTTP handler.  A handler    *)
(* runs on its own connection; what it wrote and did not commit before     *)
(* con.close() is rolled back, so an action's successor state is the       *)
(* committed database at the handler's return.                             *)
(*                                                                         *)
(* Strings are sequences of one-character strings, so that strip(), len()  *)
(* and the character filters of norm_phone are computed, not assumed.      *)
(* NULL stands for Python's None / SQL NULL.                               *)
(***************************************************************************)
EXTENDS Integers, Sequences, FiniteSets, TLC

\* ---------------------------------------------------------------- constants

CAPTCHA_TTL_SEC == 600

CAPTCHA_SCORE_THRESHOLD == 40

ALERT_SCORE_THRESHOLD == 60

\* the [:200] cut of site and vid
ID_MAX_LEN == 200

EVENTS_TTL_DAYS == 14

SECONDS_PER_DAY == 86400

\* ------------------------------------------------------------------- bounds

\* rows the leads table may hold
MaxLeads == 2

\* rows the leads table may hold when one visitor is followed
MaxLeadsDeep == 3

\* challenges /captcha/new may issue in a run
MaxChallenges == 1

\* event / heartbeat rows the events table may hold
MaxEvents == 1

\* the clock advances in steps of TickStep seconds up to MaxTime
TickStep == 600

MaxTime == 1200

\* ------------------------------------------------------------------ strings

NULL == <<"NULL">>

Digits == {"0", "1", "2", "3", "4", "5", "6", "7", "8", "9"}

IsDigit(ch) == ch \in Digits

\* bool(x) of an Optional[str]
Truthy(s) == s # NULL /\ s # <<>>

\* (x or "")
OrEmpty(s) == IF s = NULL THEN <<>> ELSE s

RECURSIVE LStrip(_)
LStrip(s) ==
    IF s # <<>> /\ Head(s) = " " THEN LStrip(Tail(s)) ELSE s

RECURSIVE RStrip(_)
RStrip(s) ==
    IF s # <<>> /\ s[Len(s)] = " " THEN RStrip(SubSeq(s, 1, Len(s) - 1)) ELSE s

\* str.strip()
Strip(s) == RStrip(LStrip(s))

\* s[:n]
Prefix(s, n) == IF Len(s) <= n THEN s ELSE SubSeq(s, 1, n)

\* an identifier cut to length but not trimmed
CleanIdNoStrip(s) == Prefix(OrEmpty(s), ID_MAX_LEN)

\* (x or "").strip()[:200]
CleanId(s) == Prefix(Strip(OrEmpty(s)), ID_MAX_LEN)

\* str.replace("++", "+"): left to right, non-overlapping
RECURSIVE ReplacePlusPlus(_)
ReplacePlusPlus(s) ==
    IF Len(s) < 2 THEN s
    ELSE IF s[1] = "+" /\ s[2] = "+"
         THEN <<"+">> \o ReplacePlusPlus(SubSeq(s, 3, Len(s)))
         ELSE <<s[1]>> \o ReplacePlusPlus(Tail(s))

KeepPhoneChars(p) == SelectSeq(p, LAMBDA ch : IsDigit(ch) \/ ch = "+")

KeepDigits(s) == SelectSeq(s, IsDigit)

norm_phone(p) ==
    IF ~Truthy(p) THEN NULL
    ELSE LET s == ReplacePlusPlus(KeepPhoneChars(p))
             digits == KeepDigits(s)
         IN  IF digits # <<>> /\ digits[1] = "8" /\ Len(digits) = 11
                 THEN <<"+", "7">> \o Tail(digits)
             ELSE IF digits # <<>> /\ digits[1] = "7" /\ Len(digits) = 11
                 THEN <<"+", "7">> \o Tail(digits)
             ELSE IF s # <<>> /\ s[1] = "+" /\ Len(digits) >= 10
                 THEN <<"+">> \o digits
             ELSE IF Len(digits) >= 10
                 THEN <<"+">> \o digits
             ELSE s

DigitChars == <<"0", "1", "2", "3", "4", "5", "6", "7", "8", "9">>

\* str(n) for the sums a captcha can ask for (4..18)
IntToStr(n) ==
    IF n < 10 THEN <<DigitChars[n + 1]>>
    ELSE <<DigitChars[(n \div 10) + 1], DigitChars[(n % 10) + 1]>>

\* ------------------------------------------------------------ request inputs

\* sites and visitor ids as they are stored (after CleanId)
Sites == {<<"a">>, <<"b">>}

Vids == {<<"v">>, <<"w">>}

\* site and vid as a request may carry them: plain, padded, blank, empty
RawSites == {<<"a">>, <<" ", "b">>, <<" ">>}

RawVids == {<<"v">>, <<"w", " ">>, <<>>}

PhoneA8 == <<"8", "9", "0", "0", "1", "1", "1", "2", "2", "3", "3">>

PhoneA7 == <<"+", "7", " ", "9", "0", "0", "1", "1", "1", "2", "2", "3", "3">>

PhoneShort == <<"1", "2", "3">>

\* lead.phone as a /collect request may carry it
LeadPhones == {NULL, PhoneA8}

\* data.phone as an admin request may carry it
AdminPhones == {NULL, PhoneA7}

RawNames == {<<"A">>, <<"B", "o", "b", " ">>}

\* the narrower request sets of the challenge-gate scopes
OneName == {<<"B", "o", "b", " ">>}

GatePhones == {PhoneA8, PhoneShort}

OnePhone == {PhoneA8}

OneRawSite == {<<" ", "b">>, <<" ">>}

OneRawVid == {<<"v">>}

\* the interaction dict of a request: the keys the scorer reads, each with
\* its value or Absent
Absent == -1

InteractionKeys == {"duration_ms", "mouse_moves", "scrolls", "keydowns"}

EmptyDict == [k \in InteractionKeys |-> Absent]

Interactions == {EmptyDict, [EmptyDict EXCEPT !["duration_ms"] = 1000]}

Kinds == {"event", "lead", "other"}

\* outcomes of secrets.randbelow(8) the model draws
RandBelow8 == {7}

\* ------------------------------------------------------------------- state

VARIABLES
    now,
    visitors,
    leads,
    events,
    alerts,
    blocked_phones,
    blocked_vids,
    captcha_challenges,
    issued,
    resp,
    verifiedBy,
    phoneBlockedVids,
    fn_in,
    fn_out,
    inflight

\* now                 time.time(), in seconds
\* visitors            the visitors table: (site, vid) -> row
\* leads               the leads table in id order (id = index)
\* events              the ts column of the events table, in id order
\* alerts              the alerts table in id order
\* blocked_phones      the phone column of blocked_phones
\* blocked_vids        the vid column of blocked_vids
\* captcha_challenges  the captcha_challenges table
\* issued              tokens handed out so far (ids are 1..issued)
\* resp                the last handler's response and the values it computed
\* verifiedBy          history: per lead row, the challenge that verified it (0: none)
\* phoneBlockedVids    history: the vids of the leads that carried a phone
\*                     when /admin/block_phone blocked it
\* fn_in, fn_out       the argument of a function studied on its own, and the
\*                     results of its successive applications
\* inflight            the /collect lead requests of the worker processes that
\*                     run them commit by commit: position and local variables

db == <<visitors, leads, events, alerts, blocked_phones, blocked_vids,
        captcha_challenges>>

\* what the handlers taken as one step never touch
aux == <<fn_in, fn_out, inflight>>

vars == <<now, visitors, leads, events, alerts, blocked_phones, blocked_vids,
          captcha_challenges, issued, resp, verifiedBy, phoneBlockedVids, aux>>

\* op, code, detail: the handler, its HTTP status and the detail of its
\* HTTPException; site, vid: its cleaned keys; ch, ansRight: the challenge
\* row a lead request named when one was owed, and whether the answer it
\* carried is that row's answer
Resp(op, code, detail, site, vid, ch, ansRight) ==
    [op |-> op, code |-> code, detail |-> detail, site |-> site, vid |-> vid,
     ch |-> ch, ansRight |-> ansRight]

\* a response that names no visitor
Plain(op, code, detail) == Resp(op, code, detail, NULL, NULL, 0, FALSE)

\* the two worker processes that serve /collect side by side
Workers == {"p", "q"}

\* a worker with no request in hand
Idle == [pc |-> "idle"]

\* the database init_db leaves behind on first start
EmptyDb ==
    /\ now = 0
    /\ visitors = [k \in {} |-> 0]
    /\ leads = <<>>
    /\ events = <<>>
    /\ alerts = <<>>
    /\ blocked_phones = {}
    /\ blocked_vids = {}
    /\ captcha_challenges = {}
    /\ issued = 0
    /\ resp = Plain("init", 0, "")
    /\ verifiedBy = <<>>
    /\ phoneBlockedVids = {}

\* the answer of /admin/block_phone and /admin/unblock_phone: the phone it
\* names, and whether the request before it was the same request with the
\* same answer
AdminOk(op, phone) ==
    [op |-> op, code |-> 200, detail |-> "", site |-> NULL, vid |-> NULL,
     ch |-> 0, ansRight |-> FALSE, phone |-> phone,
     again |-> (resp.op = op /\ resp.code = 200 /\ resp.phone = phone)]

Init ==
    /\ EmptyDb
    /\ fn_in = NULL
    /\ fn_out = <<>>
    /\ inflight = [w \in Workers |-> Idle]

\* ----------------------------------------------------------------- helpers

BoolInt(b) == IF b THEN 1 ELSE 0

\* a value int() raises on: a word, a list, a dict
Unparsable == -2

\* int(d.get(k) or 0) raises for one of the keys the scorer reads
IntRaises(d) == \E k \in DOMAIN d : d[k] = Unparsable

\* int(d.get(k) or 0)
DictGet(d, k) == IF d[k] # Absent THEN d[k] ELSE 0

\* newi[k] = v for every (k, v) of interaction, over the stored dict
MergeDict(old, interaction) ==
    [k \in InteractionKeys |-> IF interaction[k] # Absent THEN interaction[k]
                                                          ELSE old[k]]

\* a query that found no row; a lead argument that is None
NoRow == [absent |-> TRUE]

\* get_visitor: the row, or NoRow
get_visitor(vis, site, vid) ==
    IF <<site, vid>> \in DOMAIN vis THEN vis[<<site, vid>>] ELSE NoRow

NewVisitorRow(ts, interaction) ==
    [last_ts |-> ts, interaction |-> interaction, last_score |-> 0,
     last_reasons |-> NULL, captcha_required |-> 0, suspicious |-> 0,
     blocked |-> 0, lead_count |-> 0, last_phone |-> NULL, last_name |-> NULL]

\* upsert_visitor: the visitors table after its INSERT or UPDATE
upsert_visitor(vis, site, vid, ts, interaction) ==
    LET existing == get_visitor(vis, site, vid)
    IN  IF existing = NoRow
            THEN (<<site, vid>> :> NewVisitorRow(ts, interaction)) @@ vis
            ELSE [vis EXCEPT ![<<site, vid>>] =
                     [@ EXCEPT !.last_ts = ts,
                               !.interaction =
                                   MergeDict(existing.interaction, interaction)]]

is_blocked(bvids, bphones, vid, phone) ==
    IF vid \in bvids THEN TRUE
    ELSE IF Truthy(phone) /\ phone \in bphones THEN TRUE
    ELSE FALSE

LeadIds(ls) == 1..Len(ls)

\* COALESCE(x, '')
Coalesce(x) == IF x = NULL THEN <<>> ELSE x

\* a history query that forgets the site filter on the visitor's leads
lead_history_stats_all_sites(ls, site, vid, phone) ==
    LET mine == {i \in LeadIds(ls) : ls[i].vid = vid}
    IN  [vid_count |-> Cardinality(mine),
         distinct_phones |-> Cardinality({Coalesce(ls[i].phone) : i \in mine}),
         distinct_names |-> Cardinality({Coalesce(ls[i].name) : i \in mine}),
         phone_count |->
             IF Truthy(phone)
                 THEN Cardinality({i \in LeadIds(ls) :
                                      ls[i].site = site /\ ls[i].phone = phone})
                 ELSE 0]

lead_history_stats(ls, site, vid, phone) ==
    LET mine == {i \in LeadIds(ls) : ls[i].site = site /\ ls[i].vid = vid}
    IN  [vid_count |-> Cardinality(mine),
         distinct_phones |-> Cardinality({Coalesce(ls[i].phone) : i \in mine}),
         distinct_names |-> Cardinality({Coalesce(ls[i].name) : i \in mine}),
         phone_count |->
             IF Truthy(phone)
                 THEN Cardinality({i \in LeadIds(ls) :
                                      ls[i].site = site /\ ls[i].phone = phone})
                 ELSE 0]

\* a rule that adds its weight and appends nothing
TagSilent(on, tag) == <<>>

\* one rule of the scorer: the reason it appends and the weight it adds
Tag(on, tag) == IF on THEN <<tag>> ELSE <<>>

Weight(on, w) == IF on THEN w ELSE 0

\* score_suspicion: lead is NoRow (None) or [name, phone]
score_suspicion(interaction, history, lead) ==
    LET dur == DictGet(interaction, "duration_ms")
        moves == DictGet(interaction, "mouse_moves")
        scrolls == DictGet(interaction, "scrolls")
        keys == DictGet(interaction, "keydowns")
        name == IF lead = NoRow THEN <<>> ELSE Strip(OrEmpty(lead.name))
        phone == IF lead = NoRow THEN <<>> ELSE Strip(OrEmpty(lead.phone))
        fast == dur # 0 /\ dur < 4000
        low == (moves + scrolls + keys) < 3
        repeat_vid == history.vid_count >= 2
        phones == history.distinct_phones >= 2
        names == history.distinct_names >= 2
        repeat_phone == history.phone_count >= 2
        short_phone == lead # NoRow /\ phone # <<>> /\ Len(phone) < 10
        short_name == lead # NoRow /\ name # <<>> /\ Len(name) < 2
        score == Weight(fast, 25) + Weight(low, 25) + Weight(repeat_vid, 60)
                 + Weight(phones, 60) + Weight(names, 30) + Weight(repeat_phone, 40)
                 + Weight(short_phone, 10) + Weight(short_name, 10)
    IN  [score |-> score,
         reasons |-> Tag(fast, "fast_submit(<4s)") \o Tag(low, "low_interaction")
                     \o Tag(repeat_vid, "repeat_leads_same_vid(>=2)")
                     \o Tag(phones, "different_phones_same_vid")
                     \o Tag(names, "different_names_same_vid")
                     \o Tag(repeat_phone, "repeat_leads_same_phone(>=2)")
                     \o Tag(short_phone, "short_phone")
                     \o Tag(short_name, "short_name"),
         captcha_required |-> score >= CAPTCHA_SCORE_THRESHOLD,
         suspicious |-> score >= ALERT_SCORE_THRESHOLD]

\* create_alert: the alerts table after its INSERT
create_alert(als, ts, site, vid, phone, score) ==
    Append(als, [ts |-> ts, site |-> site, vid |-> vid, phone |-> phone,
                 score |-> score])

\* SELECT * FROM captcha_challenges WHERE id=? LIMIT 1: the row, or NoRow
CaptchaRow(chs, cid) ==
    IF \E c \in chs : c.id = cid THEN CHOOSE c \in chs : c.id = cid ELSE NoRow

\* a challenge check that forgets the site the challenge was issued to
captcha_ok_any_site(chs, t, site, vid, cid, ans) ==
    IF cid # 0 /\ ans # <<>>
        THEN LET ch == CaptchaRow(chs, cid)
             IN  IF ch # NoRow
                     THEN IF t - ch.ts <= CAPTCHA_TTL_SEC
                              THEN ch.vid = vid /\ Strip(ch.answer) = Strip(ans)
                              ELSE FALSE
                     ELSE FALSE
        ELSE FALSE

\* a challenge check that forgets the age of the challenge
captcha_ok_no_ttl(chs, t, site, vid, cid, ans) ==
    IF cid # 0 /\ ans # <<>>
        THEN LET ch == CaptchaRow(chs, cid)
             IN  IF ch # NoRow
                     THEN ch.vid = vid /\ ch.site = site
                          /\ Strip(ch.answer) = Strip(ans)
                     ELSE FALSE
        ELSE FALSE

\* a challenge check that refuses a challenge exactly CAPTCHA_TTL_SEC old
captcha_ok_before_ttl(chs, t, site, vid, cid, ans) ==
    IF cid # 0 /\ ans # <<>>
        THEN LET ch == CaptchaRow(chs, cid)
             IN  IF ch # NoRow
                     THEN IF t - ch.ts < CAPTCHA_TTL_SEC
                              THEN ch.vid = vid /\ ch.site = site
                                   /\ Strip(ch.answer) = Strip(ans)
                              ELSE FALSE
                     ELSE FALSE
        ELSE FALSE

\* the challenge check of collect: cid = 0 is a missing or blank id
captcha_ok(chs, t, site, vid, cid, ans) ==
    IF cid # 0 /\ ans # <<>>
        THEN LET ch == CaptchaRow(chs, cid)
             IN  IF ch # NoRow
                     THEN IF t - ch.ts <= CAPTCHA_TTL_SEC
                              THEN ch.vid = vid /\ ch.site = site
                                   /\ Strip(ch.answer) = Strip(ans)
                              ELSE FALSE
                     ELSE FALSE
        ELSE FALSE

\* a close that commits what is pending
CloseCommitting(committed, pending) == pending

\* con.close() with writes pending: the uncommitted transaction is rolled back
CloseWithoutCommit(committed, pending) == committed

\* ------------------------------------------------------------------ actions

\* what a lead request presented against the challenge table (for resp)
NamedRow(chs, cid) == IF CaptchaRow(chs, cid) # NoRow THEN cid ELSE 0

AnswerRight(chs, cid, ans) ==
    CaptchaRow(chs, cid) # NoRow /\ Strip(CaptchaRow(chs, cid).answer) = Strip(ans)

\* an UPDATE that writes back a count read earlier instead of adding to it
CountLeadOnce(vis, site, vid, phone, name) ==
    [vis EXCEPT ![<<site, vid>>] = [@ EXCEPT !.lead_count = 1,
                                             !.last_phone = phone,
                                             !.last_name = name]]

\* UPDATE visitors SET lead_count = lead_count + 1, last_phone=?, last_name=?
CountLead(vis, site, vid, phone, name) ==
    [vis EXCEPT ![<<site, vid>>] = [@ EXCEPT !.lead_count = @ + 1,
                                             !.last_phone = phone,
                                             !.last_name = name]]

\* an UPDATE that leaves captcha_required out of its SET list
StoreScoreNoCaptcha(vis, site, vid, sc, blocked) ==
    [vis EXCEPT ![<<site, vid>>] = [@ EXCEPT
        !.last_score = sc.score,
        !.last_reasons = sc.reasons,
        !.suspicious = BoolInt(sc.suspicious),
        !.blocked = BoolInt(blocked)]]

\* UPDATE visitors SET last_score=?, last_reasons_json=?, captcha_required=?,
\* suspicious=?, blocked=?
StoreScore(vis, site, vid, sc, blocked) ==
    [vis EXCEPT ![<<site, vid>>] = [@ EXCEPT
        !.last_score = sc.score,
        !.last_reasons = sc.reasons,
        !.captcha_required = BoolInt(sc.captcha_required),
        !.suspicious = BoolInt(sc.suspicious),
        !.blocked = BoolInt(blocked)]]

\* the lead branch of collect once the challenge gate is passed: the INSERT,
\* the two UPDATEs and the alert, each committed
PersistLead(vis1, site, vid, name, phone, need_captcha, rcid) ==
    \E leads1 \in {Append(leads, [site |-> site, vid |-> vid, name |-> name,
                                  phone |-> phone])} :
    \E vis2 \in {CountLead(vis1, site, vid, phone, name)} :
        /\ leads' = leads1
        /\ verifiedBy' = Append(verifiedBy, IF need_captcha THEN rcid ELSE 0)
        /\ UNCHANGED events
        /\ IF IntRaises(vis2[<<site, vid>>].interaction)
               THEN \* score_suspicion raises at line 296-299, after the commits
                    \* of lines 460 and 470: the response is a 500
                    /\ visitors' = vis2
                    /\ resp' = Resp("lead", 500, "Internal Server Error", site, vid,
                                    IF need_captcha THEN rcid ELSE 0, need_captcha)
                    /\ UNCHANGED alerts
               ELSE \E history \in {lead_history_stats(leads1, site, vid, phone)} :
                    \E sc \in {score_suspicion(vis2[<<site, vid>>].interaction,
                                               history,
                                               [name |-> name, phone |-> phone])} :
                        /\ visitors' = StoreScore(vis2, site, vid, sc,
                                                  is_blocked(blocked_vids,
                                                             blocked_phones, vid,
                                                             phone))
                        /\ alerts' = IF sc.suspicious
                                         THEN create_alert(alerts, now, site, vid,
                                                           phone, sc.score)
                                         ELSE alerts
                        /\ resp' = Resp("lead", 200, "", site, vid,
                                        IF need_captcha THEN rcid ELSE 0, need_captcha)

\* the lead branch of collect: rcid = 0 is a missing or blank captcha id
CollectLead(vis1, site, vid, rname, rphone, rcid, rans) ==
    \E name \in {Strip(OrEmpty(rname))}, phone \in {norm_phone(rphone)},
       ans \in {Strip(OrEmpty(rans))},
       need_captcha \in {get_visitor(vis1, site, vid).captcha_required = 1} :
    \E captchaOk \in {IF need_captcha
                          THEN captcha_ok(captcha_challenges, now, site, vid, rcid, ans)
                          ELSE TRUE} :
        IF need_captcha /\ ~captchaOk
            THEN \* 403 captcha_required: the upsert is rolled back
                 /\ visitors' = CloseWithoutCommit(visitors, vis1)
                 /\ resp' = Resp("lead", 403, "captcha_required", site, vid,
                                 NamedRow(captcha_challenges, rcid),
                                 AnswerRight(captcha_challenges, rcid, ans))
                 /\ UNCHANGED <<leads, events, alerts, verifiedBy>>
            ELSE PersistLead(vis1, site, vid, name, phone, need_captcha, rcid)

\* POST /collect
Collect(rsite, rvid, kind, inter, rname, rphone, rcid, rans) ==
    \E site \in {CleanId(rsite)}, vid \in {CleanId(rvid)} :
        /\ UNCHANGED <<blocked_phones, blocked_vids, captcha_challenges, now, issued,
                       phoneBlockedVids, aux>>
        /\ IF site = <<>> \/ vid = <<>>
               THEN \* 400 before anything is written
                    /\ resp' = Resp("collect", 400, "site and vid are required", site, vid, 0, FALSE)
                    /\ UNCHANGED <<visitors, leads, events, alerts, verifiedBy>>
               ELSE \E vis1 \in {upsert_visitor(visitors, site, vid, now, inter)} :
                    IF kind \in {"event", "heartbeat"}
                        THEN \* the upsert and the event row are committed together
                             /\ visitors' = vis1
                             /\ events' = Append(events, now)
                             /\ resp' = Resp("collect", 200, "", site, vid, 0, FALSE)
                             /\ UNCHANGED <<leads, alerts, verifiedBy>>
                    ELSE IF kind = "lead"
                        THEN CollectLead(vis1, site, vid, rname, rphone, rcid, rans)
                        ELSE \* no commit is reached: the upsert is rolled back
                             /\ visitors' = CloseWithoutCommit(visitors, vis1)
                             /\ resp' = Resp("collect", 200, "", site, vid, 0, FALSE)
                             /\ UNCHANGED <<leads, events, alerts, verifiedBy>>

\* the JSON body GET /risk returns for cleaned (site, vid)
risk(site, vid) ==
    LET v == get_visitor(visitors, site, vid)
        mine == {i \in LeadIds(leads) : leads[i].site = site /\ leads[i].vid = vid}
    IN  IF v = NoRow
            THEN [blocked |-> FALSE, suspicious |-> FALSE, captcha_required |-> FALSE,
                  score |-> 0, reasons |-> <<>>, count |-> 0,
                  distinct_phones |-> 0, distinct_names |-> 0]
            ELSE [blocked |-> is_blocked(blocked_vids, blocked_phones, vid, v.last_phone),
                  suspicious |-> v.suspicious = 1,
                  captcha_required |-> v.captcha_required = 1,
                  score |-> v.last_score,
                  reasons |-> OrEmpty(v.last_reasons),
                  count |-> Cardinality(mine),
                  distinct_phones |-> Cardinality({Coalesce(leads[i].phone) : i \in mine}),
                  distinct_names |-> Cardinality({Coalesce(leads[i].name) : i \in mine})]

\* GET /risk: reads only; a refusal names the keys it refused, an answer is
\* the body risk(site, vid)
Risk(rsite, rvid) ==
    LET site == CleanId(rsite)
        vid == CleanId(rvid)
    IN  /\ resp' = IF site = <<>> \/ vid = <<>>
                       THEN Resp("risk", 400, "site and vid are required", site, vid,
                                 0, FALSE)
                       ELSE Plain("risk", 200, "")
        /\ UNCHANGED <<db, now, issued, verifiedBy, phoneBlockedVids, aux>>

\* GET /captcha/new
CaptchaNew(rsite, rvid, ra, rb) ==
    LET site == CleanId(rsite)
        vid == CleanId(rvid)
        a == ra + 2
        b == rb + 2
        cid == issued + 1
    IN  \/ /\ site = <<>> \/ vid = <<>>
           /\ resp' = Resp("captcha_new", 400, "site and vid are required", site, vid, 0, FALSE)
           /\ UNCHANGED <<db, now, issued, verifiedBy, phoneBlockedVids, aux>>
        \/ /\ site # <<>> /\ vid # <<>>
           /\ captcha_challenges' = captcha_challenges \cup
                  {[id |-> cid, ts |-> now, vid |-> vid, site |-> site,
                    answer |-> IntToStr(a + b)]}
           /\ issued' = cid
           /\ resp' = Resp("captcha_new", 200, "", site, vid, cid, FALSE)
           /\ UNCHANGED <<visitors, leads, events, alerts, blocked_phones,
                          blocked_vids, now, verifiedBy, phoneBlockedVids, aux>>

\* SELECT DISTINCT vid FROM leads WHERE phone=?
VidsOfPhone(ls, phone) == {ls[i].vid : i \in {j \in LeadIds(ls) : ls[j].phone = phone}}

\* an UPDATE that counts the blocks of a visitor instead of flagging it
MarkBlockedCount(vis, vids) ==
    [k \in DOMAIN vis |-> IF k[2] \in vids THEN [vis[k] EXCEPT !.blocked = @ + 1]
                                            ELSE vis[k]]

\* UPDATE visitors SET blocked=1 WHERE vid=v, for every v of vids
MarkBlocked(vis, vids) ==
    [k \in DOMAIN vis |-> IF k[2] \in vids THEN [vis[k] EXCEPT !.blocked = 1]
                                            ELSE vis[k]]

\* POST /admin/block_phone
AdminBlockPhone(tokenOk, rphone) ==
    LET phone == norm_phone(rphone)
        vids == VidsOfPhone(leads, phone)
    IN  /\ UNCHANGED <<leads, events, alerts, captcha_challenges, now, issued,
                       verifiedBy, aux>>
        /\ \/ /\ ~tokenOk
              /\ resp' = Plain("block_phone", 401, "Unauthorized")
              /\ UNCHANGED <<visitors, blocked_phones, blocked_vids, phoneBlockedVids>>
           \/ /\ tokenOk
              /\ ~Truthy(phone)
              /\ resp' = Plain("block_phone", 400, "bad phone")
              /\ UNCHANGED <<visitors, blocked_phones, blocked_vids, phoneBlockedVids>>
           \/ /\ tokenOk
              /\ Truthy(phone)
              /\ blocked_phones' = blocked_phones \cup {phone}
              /\ blocked_vids' = blocked_vids \cup vids
              /\ visitors' = MarkBlocked(visitors, vids)
              /\ phoneBlockedVids' = phoneBlockedVids \cup
                     {v \in Vids : \E i \in LeadIds(leads) :
                                      leads[i].vid = v /\ leads[i].phone = phone}
              /\ resp' = AdminOk("block_phone", phone)

\* an unblock that also lifts the visitor blocks derived from the phone
AdminUnblockPhoneCascade(tokenOk, rphone) ==
    LET phone == norm_phone(rphone)
    IN  /\ UNCHANGED <<visitors, leads, events, alerts, captcha_challenges, now,
                       issued, verifiedBy, phoneBlockedVids, aux>>
        /\ \/ /\ ~tokenOk
              /\ resp' = Plain("unblock_phone", 401, "Unauthorized")
              /\ UNCHANGED <<blocked_phones, blocked_vids>>
           \/ /\ tokenOk
              /\ ~Truthy(phone)
              /\ resp' = Plain("unblock_phone", 400, "bad phone")
              /\ UNCHANGED <<blocked_phones, blocked_vids>>
           \/ /\ tokenOk
              /\ Truthy(phone)
              /\ blocked_phones' = blocked_phones \ {phone}
              /\ blocked_vids' = blocked_vids \ VidsOfPhone(leads, phone)
              /\ resp' = AdminOk("unblock_phone", phone)

\* POST /admin/unblock_phone
AdminUnblockPhone(tokenOk, rphone) ==
    LET phone == norm_phone(rphone)
    IN  /\ UNCHANGED <<visitors, leads, events, alerts, blocked_vids,
                       captcha_challenges, now, issued, verifiedBy, phoneBlockedVids,
                       aux>>
        /\ \/ /\ ~tokenOk
              /\ resp' = Plain("unblock_phone", 401, "Unauthorized")
              /\ UNCHANGED blocked_phones
           \/ /\ tokenOk
              /\ ~Truthy(phone)
              /\ resp' = Plain("unblock_phone", 400, "bad phone")
              /\ UNCHANGED blocked_phones
           \/ /\ tokenOk
              /\ Truthy(phone)
              /\ blocked_phones' = blocked_phones \ {phone}
              /\ resp' = AdminOk("unblock_phone", phone)

\* POST /admin/block_lead
AdminBlockLead(tokenOk, lead_id) ==
    LET found == lead_id \in LeadIds(leads)
        phone == leads[lead_id].phone
        vid == leads[lead_id].vid
        vids == IF Truthy(phone) THEN VidsOfPhone(leads, phone) ELSE {vid}
    IN  /\ UNCHANGED <<leads, events, alerts, captcha_challenges, now, issued,
                       verifiedBy, phoneBlockedVids, aux>>
        /\ \/ /\ ~tokenOk
              /\ resp' = Plain("block_lead", 401, "Unauthorized")
              /\ UNCHANGED <<visitors, blocked_phones, blocked_vids>>
           \/ /\ tokenOk
              /\ ~found
              /\ resp' = Plain("block_lead", 404, "lead not found")
              /\ UNCHANGED <<visitors, blocked_phones, blocked_vids>>
           \/ /\ tokenOk
              /\ found
              /\ blocked_phones' = IF Truthy(phone) THEN blocked_phones \cup {phone}
                                                    ELSE blocked_phones
              /\ blocked_vids' = blocked_vids \cup vids
              /\ visitors' = MarkBlocked(visitors, vids)
              /\ resp' = Plain("block_lead", 200, "")

\* cleanup_db, run by on_startup
Startup ==
    /\ events' = SelectSeq(events,
           LAMBDA ts : ~(ts < now - EVENTS_TTL_DAYS * SECONDS_PER_DAY))
    /\ captcha_challenges' =
           {c \in captcha_challenges : ~(c.ts < now - CAPTCHA_TTL_SEC)}
    /\ resp' = Plain("startup", 0, "")
    /\ UNCHANGED <<visitors, leads, alerts, blocked_phones, blocked_vids, now,
                   issued, verifiedBy, phoneBlockedVids, aux>>

\* time passes between two requests
Tick ==
    /\ now + TickStep <= MaxTime
    /\ now' = now + TickStep
    /\ resp' = Plain("tick", 0, "")
    /\ UNCHANGED <<db, issued, verifiedBy, phoneBlockedVids, aux>>

\* --------------------------------------------------------- specifications
\* The handlers above are unbounded.  A specification draws the requests
\* from small sets and cuts the runs where a table outgrows its bound.
\* Four scopes share the handlers:
\*   Spec        one (site, visitor) followed through the challenge gate,
\*               with the clock, startup cleanup and every kind of request;
\*   SpecRaw     the same, with interaction values int() may reject;
\*   SpecGate    every (site, visitor) pair at the challenge gate;
\*   SpecBlocks  every pair with the block registry and the risk query.
\* The admin handlers write only blocked_phones, blocked_vids and
\* visitors.blocked, none of which the challenge gate reads; /captcha/new,
\* startup and the clock write only captcha_challenges, events and now, none
\* of which a block decision reads.

\* the captcha dict of a lead request: absent, a guessed id (-1), or an
\* issued id with a wrong answer, the padded sum, or no answer
CaptchaInputs ==
    {[id |-> 0, ans |-> NULL], [id |-> -1, ans |-> <<"1", "8">>]}
    \cup {[id |-> c, ans |-> a] :
              c \in 1..issued, a \in {NULL, <<"4">>, <<" ", "1", "8">>}}

NoCaptcha == [id |-> 0, ans |-> NULL]

\* the bodies of /collect requests: events carry no lead, and a request
\* without site or vid is refused whatever else it carries
CollectBodies(rsite, rvid, kinds, inters, names, phones) ==
    IF CleanId(rsite) = <<>> \/ CleanId(rvid) = <<>>
        THEN {[kind |-> "lead", inter |-> EmptyDict, name |-> NULL, phone |-> NULL,
               cap |-> NoCaptcha]}
        ELSE {[kind |-> k, inter |-> i, name |-> NULL, phone |-> NULL,
               cap |-> NoCaptcha] :
                  k \in kinds \ {"lead"}, i \in inters}
             \cup {[kind |-> k, inter |-> i, name |-> n, phone |-> p, cap |-> c] :
                       k \in kinds \cap {"lead"}, i \in inters, n \in names,
                       p \in phones, c \in CaptchaInputs}

CollectFrom(rsites, rvids, kinds, inters, names, phones, maxLeads) ==
    \E rsite \in rsites, rvid \in rvids :
        \E body \in CollectBodies(rsite, rvid, kinds, inters, names, phones) :
            /\ Collect(rsite, rvid, body.kind, body.inter, body.name, body.phone,
                       body.cap.id, body.cap.ans)
            /\ Len(leads') <= maxLeads
            /\ Len(events') <= MaxEvents

RiskFrom(rsites, rvids) == \E rsite \in rsites, rvid \in rvids : Risk(rsite, rvid)

CaptchaNewFrom(rsites, rvids) ==
    \E rsite \in rsites, rvid \in rvids, ra \in RandBelow8, rb \in RandBelow8 :
        /\ CaptchaNew(rsite, rvid, ra, rb)
        /\ issued' <= MaxChallenges

\* interaction dicts as a client may send them: any JSON value per key
RawInteractions == Interactions \cup {[EmptyDict EXCEPT !["duration_ms"] = Unparsable]}

\* one visitor followed for MaxLeadsDeep leads, interaction values unchecked
NextRaw ==
    \/ CollectFrom(OneRawSite, OneRawVid, Kinds, RawInteractions, OneName, GatePhones,
                   MaxLeadsDeep)
    \/ CaptchaNewFrom(OneRawSite, OneRawVid)
    \/ Startup
    \/ Tick

SpecRaw == Init /\ [][NextRaw]_vars

\* one visitor followed for MaxLeadsDeep leads
Next ==
    \/ CollectFrom(OneRawSite, OneRawVid, Kinds, Interactions, OneName, GatePhones,
                 MaxLeadsDeep)
    \/ CaptchaNewFrom(OneRawSite, OneRawVid)
    \/ Startup
    \/ Tick

Spec == Init /\ [][Next]_vars

\* the challenge gate, every (site, visitor) pair
NextGate ==
    \/ CollectFrom(RawSites, RawVids, {"lead"}, Interactions, OneName, OnePhone, MaxLeads)
    \/ CaptchaNewFrom(RawSites, RawVids)
    \/ RiskFrom(RawSites, RawVids)

SpecGate == Init /\ [][NextGate]_vars

\* the block registry
NextBlocks ==
    \/ CollectFrom(RawSites, RawVids, {"lead"}, {EmptyDict}, RawNames, LeadPhones,
                 MaxLeads)
    \/ RiskFrom(RawSites, RawVids)
    \/ \E tokenOk \in BOOLEAN, rphone \in AdminPhones : AdminBlockPhone(tokenOk, rphone)
    \/ \E tokenOk \in BOOLEAN, rphone \in AdminPhones : AdminUnblockPhone(tokenOk, rphone)
    \/ \E tokenOk \in BOOLEAN, lead_id \in 1..(MaxLeads + 1) :
          AdminBlockLead(tokenOk, lead_id)

SpecBlocks == Init /\ [][NextBlocks]_vars

\* ------------------------------------------ norm_phone on its own
\* A phone as a client may type it: a head, a run of digits, a tail.

\* applications of the function in one run
MaxApply == 2

PhoneHeads ==
    {<<>>, <<"+">>, <<"+", "+">>, <<"+", "+", "+">>, <<"8">>, <<"7">>,
     <<"+", "7">>, <<"a">>, <<" ">>}

PhoneBodies ==
    {<<>>, <<"1">>,
     <<"9", "0", "0", "1", "1", "1", "2", "2", "3">>,
     <<"9", "0", "0", "1", "1", "1", "2", "2", "3", "3">>,
     <<"9", "0", "0", "1", "1", "1", "2", "2", "3", "3", "4">>}

PhoneTails == {<<>>, <<"+">>, <<"+", "+">>, <<"-">>}

PhoneInputs ==
    {NULL} \cup {h \o b \o t : h \in PhoneHeads, b \in PhoneBodies, t \in PhoneTails}

InitPhone ==
    /\ EmptyDb
    /\ fn_in \in PhoneInputs
    /\ fn_out = <<>>
    /\ inflight = [w \in Workers |-> Idle]

\* norm_phone applied to the argument, then to its own result
ApplyNormPhone ==
    /\ Len(fn_out) < MaxApply
    /\ fn_out' = Append(fn_out, norm_phone(IF fn_out = <<>> THEN fn_in
                                                            ELSE fn_out[Len(fn_out)]))
    /\ UNCHANGED <<db, now, issued, resp, verifiedBy, phoneBlockedVids, fn_in,
                   inflight>>

NextPhone == ApplyNormPhone

SpecPhone == InitPhone /\ [][NextPhone]_vars

\* ------------------------------------- score_suspicion on its own
\* The arguments of the scorer: an interaction dict, the four counts of
\* lead_history_stats, and the lead (None, or a name and a phone).

ScoreInteractions ==
    {[EmptyDict EXCEPT !["duration_ms"] = d, !["mouse_moves"] = m] :
         d \in {Absent, 0, 1000, 4000}, m \in {Absent, 2, 3}}

HistoryCounts == 0..2

ScoreHistories ==
    [vid_count : HistoryCounts, distinct_phones : HistoryCounts,
     distinct_names : HistoryCounts, phone_count : HistoryCounts]

ScoreLeads ==
    {NoRow} \cup [name : {NULL, <<"A">>, <<"B", "o">>},
                  phone : {NULL, PhoneShort, PhoneA8}]

ScoreInputs ==
    [interaction : ScoreInteractions, history : ScoreHistories, lead : ScoreLeads]

InitScore ==
    /\ EmptyDb
    /\ fn_in \in ScoreInputs
    /\ fn_out = <<>>
    /\ inflight = [w \in Workers |-> Idle]

\* one call of score_suspicion; fn_out holds what it returned
ApplyScore ==
    /\ fn_out = <<>>
    /\ fn_out' = <<score_suspicion(fn_in.interaction, fn_in.history, fn_in.lead)>>
    /\ UNCHANGED <<db, now, issued, resp, verifiedBy, phoneBlockedVids, fn_in,
                   inflight>>

NextScore == ApplyScore

SpecScore == InitScore /\ [][NextScore]_vars

\* -------------------------------------- /collect commit by commit
\* The lead branch of collect commits four times (lines 460, 470, 494 and
\* create_alert's 347).  Between two commits the database is visible to the
\* other connections, and a second process serving /collect on the same
\* DB_PATH may run its own statements.  inflight[w] is the position of
\* worker w in that branch, with the local variables it has computed.

\* lines 399-460: the upsert, the gate and the INSERT of the lead, committed
\* together; the request carries no captcha
LeadBegin(w, rsite, rvid, inter, rname, rphone) ==
    \E site \in {CleanId(rsite)}, vid \in {CleanId(rvid)},
       name \in {Strip(OrEmpty(rname))}, phone \in {norm_phone(rphone)} :
    \E vis1 \in {upsert_visitor(visitors, site, vid, now, inter)} :
        /\ inflight[w].pc = "idle"
        /\ site # <<>> /\ vid # <<>>
        /\ IF /\ get_visitor(vis1, site, vid).captcha_required = 1
              /\ ~captcha_ok(captcha_challenges, now, site, vid, NoCaptcha.id,
                             Strip(OrEmpty(NoCaptcha.ans)))
               THEN /\ visitors' = CloseWithoutCommit(visitors, vis1)
                    /\ resp' = Resp("lead", 403, "captcha_required", site, vid, 0,
                                    FALSE)
                    /\ UNCHANGED <<leads, verifiedBy, inflight>>
               ELSE /\ visitors' = vis1
                    /\ leads' = Append(leads, [site |-> site, vid |-> vid,
                                               name |-> name, phone |-> phone])
                    /\ verifiedBy' = Append(verifiedBy, 0)
                    /\ inflight' = [inflight EXCEPT ![w] =
                           [pc |-> "inserted", site |-> site, vid |-> vid,
                            name |-> name, phone |-> phone]]
                    /\ UNCHANGED resp
        /\ UNCHANGED <<events, alerts, blocked_phones, blocked_vids,
                       captcha_challenges, now, issued, phoneBlockedVids, fn_in,
                       fn_out>>

\* lines 463-470: the lead_count UPDATE and its commit
LeadCount(w) ==
    /\ inflight[w].pc = "inserted"
    /\ visitors' = CountLead(visitors, inflight[w].site, inflight[w].vid,
                             inflight[w].phone, inflight[w].name)
    /\ inflight' = [inflight EXCEPT ![w].pc = "counted"]
    /\ UNCHANGED <<leads, events, alerts, blocked_phones, blocked_vids,
                   captcha_challenges, now, issued, resp, verifiedBy,
                   phoneBlockedVids, fn_in, fn_out>>

\* lines 473-483: the visitor row, the history and the block are read and the
\* score is computed into local variables
LeadScore(w) ==
    /\ inflight[w].pc = "counted"
    /\ inflight' = [inflight EXCEPT ![w] =
           [pc |-> "scored", site |-> @.site, vid |-> @.vid, name |-> @.name,
            phone |-> @.phone,
            sc |-> score_suspicion(
                       get_visitor(visitors, @.site, @.vid).interaction,
                       lead_history_stats(leads, @.site, @.vid, @.phone),
                       [name |-> @.name, phone |-> @.phone]),
            blocked |-> is_blocked(blocked_vids, blocked_phones, @.vid, @.phone)]]
    /\ UNCHANGED <<db, now, issued, resp, verifiedBy, phoneBlockedVids, fn_in,
                   fn_out>>

\* lines 485-494: the score UPDATE and its commit
LeadStore(w) ==
    /\ inflight[w].pc = "scored"
    /\ visitors' = StoreScore(visitors, inflight[w].site, inflight[w].vid,
                              inflight[w].sc, inflight[w].blocked)
    /\ inflight' = [inflight EXCEPT ![w].pc = "stored"]
    /\ UNCHANGED <<leads, events, alerts, blocked_phones, blocked_vids,
                   captcha_challenges, now, issued, resp, verifiedBy,
                   phoneBlockedVids, fn_in, fn_out>>

\* lines 496-500: the alert, and the response
LeadAlert(w) ==
    /\ inflight[w].pc = "stored"
    /\ alerts' = IF inflight[w].sc.suspicious
                     THEN create_alert(alerts, now, inflight[w].site,
                                       inflight[w].vid, inflight[w].phone,
                                       inflight[w].sc.score)
                     ELSE alerts
    /\ resp' = Resp("lead", 200, "", inflight[w].site, inflight[w].vid, 0, FALSE)
    /\ inflight' = [inflight EXCEPT ![w] = Idle]
    /\ UNCHANGED <<visitors, leads, events, blocked_phones, blocked_vids,
                   captcha_challenges, now, issued, verifiedBy, phoneBlockedVids,
                   fn_in, fn_out>>

\* a statement of the branch raises (sqlite3.OperationalError, the process is
\* killed): the handler ends at its position, what is committed stays
StorageFailure(w) ==
    /\ inflight[w].pc \in {"inserted", "counted", "scored", "stored"}
    /\ inflight' = [inflight EXCEPT ![w] = [pc |-> "failed"]]
    /\ resp' = Plain("lead", 500, "Internal Server Error")
    /\ UNCHANGED <<db, now, issued, verifiedBy, phoneBlockedVids, fn_in, fn_out>>

RaceSites == {<<"b">>}

NextRace ==
    \/ \E w \in Workers, rsite \in RaceSites, rvid \in OneRawVid, rname \in OneName,
          rphone \in GatePhones :
          /\ LeadBegin(w, rsite, rvid, EmptyDict, rname, rphone)
          /\ Len(leads') <= MaxLeads
    \/ \E w \in Workers : LeadCount(w)
    \/ \E w \in Workers : LeadScore(w)
    \/ \E w \in Workers : LeadStore(w)
    \/ \E w \in Workers : LeadAlert(w)
    \/ \E w \in Workers : StorageFailure(w)
    \/ Startup

SpecRace == Init /\ [][NextRace]_vars

\* ------------------------------------------------------------- properties

\* the leads (rowids) of one (site, visitor)
LeadsOf(site, vid) == {i \in LeadIds(leads) : leads[i].site = site /\ leads[i].vid = vid}

\* C1: a challenge is single-use: once a lead has been accepted on challenge
\* id C and its answer, no later lead is accepted on the same id C, so no
\* challenge id verifies two lead rows.
ChallengeSingleUse ==
    \A i, j \in LeadIds(leads) :
        (i < j /\ verifiedBy[i] # 0) => verifiedBy[j] # verifiedBy[i]

\* C2: a block is a veto on submit: a step never adds a lead row whose
\* visitor identifier or normalized phone has a block entry when the request
\* arrives.
NoLeadFromBlockedActor ==
    [][Len(leads') > Len(leads)
          => ~is_blocked(blocked_vids, blocked_phones, leads'[Len(leads')].vid,
                         leads'[Len(leads')].phone)]_vars

\* C3: a lead request refused with 403 captcha_required leaves every table
\* as it was: no lead row, and the visitor row (last_ts, interaction,
\* lead_count, score, reasons, flags) is the row of before the request.
RejectedLeadChangesNothing ==
    [][(resp'.op = "lead" /\ resp'.code = 403) => UNCHANGED db]_vars

\* a refused lead whose upsert would have moved last_ts of the visitor row
RejectedAfterUpsert ==
    /\ resp.op = "lead"
    /\ resp.code = 403
    /\ visitors[<<resp.site, resp.vid>>].last_ts < now

\* C4: once /admin/block_phone has blocked a phone, every visitor identifier
\* that had a lead with that phone reports blocked = true to the risk query,
\* whatever site the query names and whatever is submitted afterwards.
PhoneBlockReachesVisitors ==
    \A v \in phoneBlockedVids, site \in Sites : risk(site, v).blocked

\* C5: the two block axes are independent: a step that removes a phone block
\* removes that one entry and leaves blocked_vids and the visitor rows as
\* they were, and no step removes a visitor block, with or without touching
\* the phone blocks.
BlockAxesIndependent ==
    [][/\ blocked_vids \subseteq blocked_vids'
       /\ (resp'.op = "unblock_phone" /\ resp'.code = 200)
              => /\ UNCHANGED <<blocked_vids, visitors>>
                 /\ blocked_phones' \subseteq blocked_phones
                 /\ Cardinality(blocked_phones \ blocked_phones') <= 1]_vars

\* the phone block is lifted while the visitor block it derived stays
PhoneUnblockedVidStillBlocked ==
    /\ resp.op = "unblock_phone"
    /\ resp.code = 200
    /\ blocked_phones = {}
    /\ phoneBlockedVids # {}
    /\ phoneBlockedVids \subseteq blocked_vids

\* the challenge row cid was issued to (site, vid)
IssuedTo(cid, site, vid) ==
    /\ CaptchaRow(captcha_challenges, cid).site = site
    /\ CaptchaRow(captcha_challenges, cid).vid = vid

\* C6: a challenge satisfies only the (site, visitor) it was issued to: a lead
\* request that owes a challenge and presents the id and the right answer of a
\* challenge issued to another visitor or another site is refused with 403 and
\* no table changes.
ForeignChallengeRefused ==
    [][(/\ resp'.op = "lead"
        /\ resp'.ch # 0
        /\ resp'.ansRight
        /\ ~IssuedTo(resp'.ch, resp'.site, resp'.vid))
           => (resp'.code = 403 /\ UNCHANGED db)]_vars

\* a refused lead that presented, with its right answer, a challenge issued
\* to the same visitor on another site
ForeignChallengePresented ==
    /\ resp.op = "lead"
    /\ resp.code = 403
    /\ resp.ch # 0
    /\ resp.ansRight
    /\ CaptchaRow(captcha_challenges, resp.ch).vid = resp.vid
    /\ CaptchaRow(captcha_challenges, resp.ch).site # resp.site

\* what the caller of /collect sees: the status and the detail of the error
Outcome(r) == [code |-> r.code, detail |-> r.detail]

\* the challenge row cid is older than CAPTCHA_TTL_SEC
Expired(cid) == now - CaptchaRow(captcha_challenges, cid).ts > CAPTCHA_TTL_SEC

\* C7: a lead request that presents a challenge more than CAPTCHA_TTL_SEC
\* after it was issued is refused even with the right answer, and every
\* refused lead request, expired or wrongly answered, gets the same status
\* and detail, 403 captcha_required.
ExpiredChallengeRefused ==
    /\ (resp.op = "lead" /\ resp.ch # 0 /\ resp.ansRight /\ Expired(resp.ch))
           => resp.code = 403
    /\ (resp.op = "lead" /\ resp.code # 200)
           => Outcome(resp) = [code |-> 403, detail |-> "captcha_required"]

\* a refused lead that presented its own challenge with the right answer,
\* too late
ExpiredChallengePresented ==
    /\ resp.op = "lead"
    /\ resp.code = 403
    /\ resp.ch # 0
    /\ resp.ansRight
    /\ IssuedTo(resp.ch, resp.site, resp.vid)
    /\ Expired(resp.ch)

\* C8: alerts are deduplicated per (site, visitor) with a cooldown: whatever
\* the length of the cooldown, two alert rows of one (site, visitor) are never
\* raised at the same reading of the clock.
AlertsDeduplicated ==
    \A i, j \in 1..Len(alerts) :
        (i < j /\ alerts[i].site = alerts[j].site /\ alerts[i].vid = alerts[j].vid)
            => alerts[j].ts # alerts[i].ts

\* C9: the second lead of a visitor, when it carries another phone than the
\* first, is persisted only on a verified challenge, whatever the score of
\* the first lead was.
PhoneChangeNeedsChallenge ==
    \A i \in LeadIds(leads) :
        LET prior == {j \in LeadsOf(leads[i].site, leads[i].vid) : j < i}
        IN  (/\ Cardinality(prior) = 1
             /\ \A j \in prior : leads[j].phone # leads[i].phone)
                => verifiedBy[i] # 0

\* the reasons stored for the visitor resp names, as a set
StoredReasons ==
    {visitors[<<resp.site, resp.vid>>].last_reasons[i] :
         i \in 1..Len(visitors[<<resp.site, resp.vid>>].last_reasons)}

\* the reasons score_suspicion derives from the leads of the visitor itself
VisitorHistoryReasons ==
    {"repeat_leads_same_vid(>=2)", "different_phones_same_vid",
     "different_names_same_vid"}

\* every reason score_suspicion derives from lead_history_stats
HistoryReasons == VisitorHistoryReasons \cup {"repeat_leads_same_phone(>=2)"}

\* resp answers the first lead (site, visitor) got persisted
FirstLeadAccepted ==
    /\ resp.op = "lead"
    /\ resp.code = 200
    /\ Cardinality(LeadsOf(resp.site, resp.vid)) = 1

\* the score of the accepted lead, had the history counted what h counts
ScoreOver(h) ==
    score_suspicion(visitors[<<resp.site, resp.vid>>].interaction, h,
                    [name |-> leads[Len(leads)].name,
                     phone |-> leads[Len(leads)].phone]).score

\* C10 as stated: the score stored for the first lead of a visitor on a site
\* has none of the history-derived reasons, and is the score an empty
\* history gives.
FirstLeadNoHistoryReason ==
    FirstLeadAccepted =>
        /\ StoredReasons \cap HistoryReasons = {}
        /\ visitors[<<resp.site, resp.vid>>].last_score =
               ScoreOver([vid_count |-> 0, distinct_phones |-> 0,
                          distinct_names |-> 0, phone_count |-> 0])

\* C10: the score stored for the first lead of a visitor on a site has none
\* of the three reasons derived from the visitor's own leads, and is the
\* score a history gives that counts nothing but the leads of the site with
\* the same phone.
FirstLeadNoVisitorHistoryReason ==
    FirstLeadAccepted =>
        /\ StoredReasons \cap VisitorHistoryReasons = {}
        /\ visitors[<<resp.site, resp.vid>>].last_score =
               ScoreOver([vid_count |-> 0, distinct_phones |-> 0,
                          distinct_names |-> 0,
                          phone_count |->
                              lead_history_stats(leads, resp.site, resp.vid,
                                  leads[Len(leads)].phone).phone_count])

\* a visitor's first lead on a site reuses the phone of another visitor's
\* lead on that site
FirstLeadWithSharedPhone ==
    /\ FirstLeadAccepted
    /\ "repeat_leads_same_phone(>=2)" \in StoredReasons

\* C11: phone normalization is idempotent: normalizing the result of
\* norm_phone gives that result again, for every input.
NormPhoneIdempotent ==
    Len(fn_out) >= 2 => fn_out[2] = fn_out[1]

\* no worker holds a request and none has failed
AllIdle == \A w \in Workers : inflight[w].pc = "idle"

\* no worker holds a request
NoneInFlight == \A w \in Workers : inflight[w].pc \in {"idle", "failed"}

\* the four stored score fields of a visitor row are those of sc
StoresScore(row, sc) ==
    /\ row.last_score = sc.score
    /\ row.last_reasons = sc.reasons
    /\ row.captcha_required = BoolInt(sc.captcha_required)
    /\ row.suspicious = BoolInt(sc.suspicious)

\* C12: read history, compute score, write aggregate is atomic per visitor:
\* once the concurrent lead requests of a (site, visitor) have all completed,
\* the stored score, reasons and flags are those computed for one of its
\* leads from the full lead history.
ScoreFromFullHistory ==
    AllIdle =>
        \A k \in DOMAIN visitors :
            LeadsOf(k[1], k[2]) # {} =>
                \E i \in LeadsOf(k[1], k[2]) :
                    StoresScore(visitors[k],
                        score_suspicion(visitors[k].interaction,
                            lead_history_stats(leads, k[1], k[2], leads[i].phone),
                            [name |-> leads[i].name, phone |-> leads[i].phone]))

\* C13: a storage failure leaves no partial state: whenever no request is
\* in flight, every (site, visitor) with lead rows has a visitor row whose
\* lead_count counts them and whose score has been refreshed from them.
NoLeadWithoutAggregate ==
    NoneInFlight =>
        \A i \in LeadIds(leads) :
            LET k == <<leads[i].site, leads[i].vid>>
            IN  /\ k \in DOMAIN visitors
                /\ visitors[k].lead_count = Cardinality(LeadsOf(k[1], k[2]))
                /\ \E j \in LeadsOf(k[1], k[2]) :
                       StoresScore(visitors[k],
                           score_suspicion(visitors[k].interaction,
                               lead_history_stats(leads, k[1], k[2], leads[j].phone),
                               [name |-> leads[j].name, phone |-> leads[j].phone]))

\* C19: when no request is in flight and no storage failure has occurred,
\* lead_count of every visitor row is the number of lead rows of its
\* (site, visitor), and every lead row has its visitor row.
LeadCountMatchesLeads ==
    AllIdle =>
        /\ \A k \in DOMAIN visitors :
               visitors[k].lead_count = Cardinality(LeadsOf(k[1], k[2]))
        /\ \A i \in LeadIds(leads) : <<leads[i].site, leads[i].vid>> \in DOMAIN visitors

\* the requests of the workers have completed and left a visitor with two
\* leads
TwoLeadsCounted ==
    /\ AllIdle
    /\ resp.op = "lead"
    /\ resp.code = 200
    /\ \E k \in DOMAIN visitors : visitors[k].lead_count = 2

\* the handlers that validate site and vid
ValidatingOps == {"collect", "lead", "risk", "captcha_new"}

\* C14: a submit, risk or captcha request whose site or vid is empty or blank
\* after trimming is answered 400 and no row of any table is created or
\* changed.
BlankKeysRefused ==
    [][(/\ resp'.op \in ValidatingOps
        /\ (Strip(resp'.site) = <<>> \/ Strip(resp'.vid) = <<>>))
           => (/\ resp'.code = 400
               /\ resp'.detail = "site and vid are required"
               /\ UNCHANGED db)]_vars

\* a refused risk query on a database that holds a lead and a challenge
BlankRiskRefused ==
    /\ resp.op = "risk"
    /\ resp.code = 400
    /\ leads # <<>>
    /\ captcha_challenges # {}

\* C15: block and unblock are idempotent: /admin/block_phone or
\* /admin/unblock_phone repeated at once with the same phone leaves the
\* blocked phones, the blocked visitor identifiers and the cached blocked
\* flags as the first application left them.
BlockUnblockIdempotent ==
    [][(/\ resp'.op \in {"block_phone", "unblock_phone"}
        /\ resp'.code = 200
        /\ resp'.again)
           => UNCHANGED <<blocked_phones, blocked_vids, visitors>>]_vars

\* a phone with leads has been blocked twice in a row
BlockedTwice ==
    /\ resp.op = "block_phone"
    /\ resp.code = 200
    /\ resp.again
    /\ resp.phone \in blocked_phones
    /\ blocked_vids # {}

\* the phones of the leads the visitor of the newest lead had before it
PriorPhones ==
    {leads[j].phone :
         j \in {i \in LeadsOf(leads[Len(leads)].site, leads[Len(leads)].vid) :
                    i < Len(leads) /\ Truthy(leads[i].phone)}}

\* C16: the phone-changed reason is stored for an accepted lead exactly when
\* the lead carries a phone, an earlier lead of the visitor on the site
\* carried a phone, and the phone of the lead is none of the earlier ones.
PhoneChangedExact ==
    (resp.op = "lead" /\ resp.code = 200) =>
        ("different_phones_same_vid" \in StoredReasons
             <=> (/\ Truthy(leads[Len(leads)].phone)
                  /\ PriorPhones # {}
                  /\ leads[Len(leads)].phone \notin PriorPhones))

\* the weight the scorer adds with each reason it appends
ReasonWeight ==
    [r \in {"fast_submit(<4s)", "low_interaction"} |-> 25]
    @@ [r \in {"repeat_leads_same_vid(>=2)", "different_phones_same_vid"} |-> 60]
    @@ [r \in {"different_names_same_vid"} |-> 30]
    @@ [r \in {"repeat_leads_same_phone(>=2)"} |-> 40]
    @@ [r \in {"short_phone", "short_name"} |-> 10]

RECURSIVE WeightOf(_)
WeightOf(reasons) ==
    IF reasons = <<>> THEN 0
    ELSE ReasonWeight[Head(reasons)] + WeightOf(Tail(reasons))

\* C17: whatever score_suspicion is given, the score it returns is the sum
\* of the fixed weights of the reasons it returns, no reason is returned
\* twice, and the score is zero exactly when no reason is returned.
ScoreIsSumOfReasons ==
    fn_out # <<>> =>
        LET r == fn_out[1]
        IN  /\ \A i \in 1..Len(r.reasons) : r.reasons[i] \in DOMAIN ReasonWeight
            /\ r.score = WeightOf(r.reasons)
            /\ \A i, j \in 1..Len(r.reasons) :
                   r.reasons[i] = r.reasons[j] => i = j
            /\ (r.score = 0 <=> r.reasons = <<>>)

\* a call that returned a behaviour reason, a history reason and a lead reason
SeveralReasonsScored ==
    /\ fn_out # <<>>
    /\ \E i, j, k \in 1..Len(fn_out[1].reasons) :
           /\ fn_out[1].reasons[i] = "fast_submit(<4s)"
           /\ fn_out[1].reasons[j] = "repeat_leads_same_phone(>=2)"
           /\ fn_out[1].reasons[k] = "short_name"

\* the visitor row of (site, vid) has captcha_required set
Owes(site, vid) ==
    /\ get_visitor(visitors, site, vid) # NoRow
    /\ get_visitor(visitors, site, vid).captcha_required = 1

\* lead_count of (site, vid), 0 before the row exists
LeadCountOf(vis, site, vid) ==
    IF get_visitor(vis, site, vid) = NoRow THEN 0
    ELSE get_visitor(vis, site, vid).lead_count

\* C18: a lead request of a visitor that owes no challenge, or that presents
\* the id and the right answer of an unexpired challenge issued to the same
\* (site, visitor), is not refused: exactly one lead row is written, for that
\* visitor, and the lead_count of the visitor grows by one.
AcceptedLeadPersisted ==
    [][(/\ resp'.op = "lead"
        /\ \/ ~Owes(resp'.site, resp'.vid)
           \/ /\ resp'.ch # 0
              /\ resp'.ansRight
              /\ IssuedTo(resp'.ch, resp'.site, resp'.vid)
              /\ ~Expired(resp'.ch))
           => (/\ resp'.code # 403
               /\ Len(leads') = Len(leads) + 1
               /\ SubSeq(leads', 1, Len(leads)) = leads
               /\ leads'[Len(leads')].site = resp'.site
               /\ leads'[Len(leads')].vid = resp'.vid
               /\ LeadCountOf(visitors', resp'.site, resp'.vid)
                      = LeadCountOf(visitors, resp'.site, resp'.vid) + 1)]_vars

\* a lead accepted on a challenge answered exactly CAPTCHA_TTL_SEC after it
\* was issued
LeadAcceptedAtTtl ==
    /\ resp.op = "lead"
    /\ resp.code = 200
    /\ resp.ch # 0
    /\ IssuedTo(resp.ch, resp.site, resp.vid)
    /\ now - CaptchaRow(captcha_challenges, resp.ch).ts = CAPTCHA_TTL_SEC

\* the leads of (site, vid) that came after two earlier leads of the pair
LaterLeads(site, vid) ==
    {i \in LeadsOf(site, vid) :
         Cardinality({j \in LeadsOf(site, vid) : j < i}) >= 2}

\* C20: once a visitor has two or more leads on a site its captcha_required
\* flag is set, whatever has run since, and every lead of the visitor on the
\* site after the second was persisted on a verified challenge.
RepeatVisitorOwesChallenge ==
    \A k \in DOMAIN visitors :
        /\ Cardinality(LeadsOf(k[1], k[2])) >= 2 => visitors[k].captcha_required = 1
        /\ \A i \in LaterLeads(k[1], k[2]) : verifiedBy[i] # 0

\* C21: with the default thresholds (alert 60, challenge 40) every visitor
\* row with suspicious set has captcha_required set, and an alert row is
\* added only by a lead request whose recomputed score, the one it stores in
\* the visitor row and in the alert, sets suspicious.
AlertOnlyWhenSuspicious ==
    /\ [](\A k \in DOMAIN visitors :
              visitors[k].suspicious = 1 => visitors[k].captcha_required = 1)
    /\ [][alerts' # alerts
              => (/\ resp'.op = "lead"
                  /\ resp'.code = 200
                  /\ Len(alerts') = Len(alerts) + 1
                  /\ SubSeq(alerts', 1, Len(alerts)) = alerts
                  /\ alerts'[Len(alerts')].site = resp'.site
                  /\ alerts'[Len(alerts')].vid = resp'.vid
                  /\ alerts'[Len(alerts')].score >= ALERT_SCORE_THRESHOLD
                  /\ alerts'[Len(alerts')].score
                         = visitors'[<<resp'.site, resp'.vid>>].last_score
                  /\ visitors'[<<resp'.site, resp'.vid>>].suspicious = 1)]_vars

\* a lead whose recomputed score raised an alert and set both flags
LeadRaisedAlert ==
    /\ resp.op = "lead"
    /\ resp.code = 200
    /\ alerts # <<>>
    /\ alerts[Len(alerts)].site = resp.site
    /\ alerts[Len(alerts)].vid = resp.vid
    /\ alerts[Len(alerts)].ts = now
    /\ alerts[Len(alerts)].score = visitors[<<resp.site, resp.vid>>].last_score
    /\ visitors[<<resp.site, resp.vid>>].suspicious = 1
    /\ visitors[<<resp.site, resp.vid>>].captcha_required = 1

====
